---------------------------- MODULE Spec2Model ----------------------------
(***************************************************************************)
(* A model of python-pkcs1: the integer/byte codec (i2osp, os2ip), the     *)
(* multi-prime key generator (generate_key_pair) and the PKCS#1 v1.5       *)
(* signature scheme (sign, verify).                                        *)
(*                                                                         *)
(* Three state machines share the module:                                  *)
(*   CodecSpec  applies i2osp and os2ip to bounded inputs;                 *)
(*   Spec       runs the rejection loop of generate_key_pair;              *)
(*   SigSpec    signs, tampers and verifies with small valid key pairs.    *)
(***************************************************************************)
EXTENDS Integers, Sequences, FiniteSets

VARIABLES
    \* ---- codec ----
    op,          \* last codec operation: "init", "i2osp", "os2ip", "roundtrip"
    x,           \* integer handed to i2osp
    x_len,       \* length handed to i2osp
    x_long,      \* TRUE when x is a Python long (hex() then ends in 'L')
    octets,      \* byte string: result of i2osp / argument of os2ip
    value,       \* result of os2ip
    \* ---- generate_key_pair ----
    size, number, strict_size,      \* the arguments
    e,           \* the argument e (None: to be derived); the exponent used
                 \* is the e of the returned keys
    primes, lbda, n,                \* the loop's locals
    pc,          \* "idle", "loop", "returned", "assert_failed", "provider_fault"
    last,        \* outcome of the last loop iteration
    public, private,                \* the returned pair
    \* ---- sign / verify ----
    pub, priv,   \* the key pair in use
    gmpy,        \* TRUE when the gmpy import succeeded
    message, signature,
    origin,      \* where signature comes from: "none", "sign", "sign_failed",
                 \* "tamper" (a valid one with one byte altered), "forge"
    sig_op,      \* the last operation: "init", "sign", "tamper", "forge", "verify"
    outcome      \* result of the last verify: [res, calls]

codecVars == <<op, x, x_len, x_long, octets, value>>
genVars   == <<size, number, strict_size, e, primes, lbda, n, pc, last, public, private>>
sigVars   == <<pub, priv, gmpy, message, signature, origin, sig_op, outcome>>
vars      == <<codecVars, genVars, sigVars>>

-----------------------------------------------------------------------------
(* Bounds of the model.                                                    *)

MaxX == 300          \* i2osp is applied to 0..MaxX and to the 256^2 boundary
MaxLen == 2          \* lengths handed to i2osp: 0..MaxLen
MaxOctets == 2       \* os2ip is applied to byte strings of up to MaxOctets bytes

-----------------------------------------------------------------------------
(* Python values.                                                          *)

\* Python's None, where an integer is expected.
None == 0 - 1

\* The outcome of a call: the value returned, or the exception raised.
Ok(v)         == [exc |-> "none", val |-> v]
Raise(exc)    == [exc |-> exc, val |-> <<>>]     \* of a call returning a string
RaiseInt(exc) == [exc |-> exc, val |-> None]     \* of a call returning an integer

Byte == 0..255

RECURSIVE Pow(_, _)
Pow(a, b) == IF b = 0 THEN 1 ELSE a * Pow(a, b - 1)

RECURSIVE Repeat(_, _)
\* Python's  s * count : the empty string when count <= 0.
Repeat(c, count) == IF count <= 0 THEN <<>> ELSE <<c>> \o Repeat(c, count - 1)

HexDigits == <<"0", "1", "2", "3", "4", "5", "6", "7",
               "8", "9", "a", "b", "c", "d", "e", "f">>

HexChar(d) == HexDigits[d + 1]
HexVal(c)  == CHOOSE d \in 0..15 : HexDigits[d + 1] = c

RECURSIVE HexOf(_)
\* The hexadecimal digits of a non-negative integer, most significant first.
HexOf(v) == IF v < 16 THEN <<HexChar(v)>> ELSE HexOf(v \div 16) \o <<HexChar(v % 16)>>

\* hex(x): "0x", the digits, and a trailing "L" for a long.
hex(v, long) == <<"0", "x">> \o HexOf(v) \o (IF long THEN <<"L">> ELSE <<>>)

RECURSIVE decode_hex(_)
\* h.decode('hex'): two digits per byte.
decode_hex(h) ==
    IF Len(h) = 0 THEN <<>>
    ELSE <<16 * HexVal(h[1]) + HexVal(h[2])>> \o decode_hex(SubSeq(h, 3, Len(h)))

RECURSIVE encode_hex(_)
\* x.encode('hex'): two digits per byte.
encode_hex(s) ==
    IF Len(s) = 0 THEN <<>>
    ELSE <<HexChar(s[1] \div 16), HexChar(s[1] % 16)>> \o encode_hex(Tail(s))

RECURSIVE ParseHex(_, _)
ParseHex(h, acc) ==
    IF Len(h) = 0 THEN acc ELSE ParseHex(Tail(h), 16 * acc + HexVal(h[1]))

\* int(h, 16): ValueError on the empty string.
int16(h) == IF Len(h) = 0 THEN RaiseInt("ValueError") ELSE Ok(ParseHex(h, 0))

-----------------------------------------------------------------------------
(* primitives.py: sizes and the codec.                                     *)

RECURSIVE BitLoop(_, _)
BitLoop(v, s) == IF v = 0 THEN s ELSE BitLoop(v \div 2, s + 1)

integer_bit_size(v) == IF v = 0 THEN 1 ELSE BitLoop(v, 0)

integer_byte_size(v) ==
    LET quanta == integer_bit_size(v) \div 8
        mod    == integer_bit_size(v) % 8
    IN  IF mod # 0 \/ v = 0 THEN quanta + 1 ELSE quanta

i2osp_rightpad(v, v_len, long) ==
    IF v > Pow(256, v_len) THEN Raise("IntegerTooLarge")
    ELSE LET h0 == SubSeq(hex(v, long), 3, Len(hex(v, long)))
             h1 == IF h0[Len(h0)] = "L" THEN SubSeq(h0, 1, Len(h0) - 1) ELSE h0
             h2 == IF Len(h1) % 2 = 1 THEN <<"0">> \o h1 ELSE h1
             s  == decode_hex(h2)
         IN  Ok(s \o Repeat(0, v_len - Len(s)))

i2osp(v, v_len, long) ==
    IF v > Pow(256, v_len) THEN Raise("IntegerTooLarge")
    ELSE LET h0 == SubSeq(hex(v, long), 3, Len(hex(v, long)))
             h1 == IF h0[Len(h0)] = "L" THEN SubSeq(h0, 1, Len(h0) - 1) ELSE h0
             h2 == IF Len(h1) % 2 = 1 THEN <<"0">> \o h1 ELSE h1
             s  == decode_hex(h2)
         IN  Ok(Repeat(0, v_len - Len(s)) \o s)

os2ip(s) == int16(encode_hex(s))

-----------------------------------------------------------------------------
(* CodecSpec: i2osp and os2ip applied to bounded inputs.                   *)

\* The integers handed to i2osp: a range over the 256^0 and 256^1 boundaries,
\* and the values around 256^2.
CodecInts == (0..MaxX) \cup {65535, 65536, 65537}

\* The bytes the byte strings handed to os2ip are made of.
SampleBytes == {0, 1, 15, 16, 128, 255}

ByteStrings(maxLen) == UNION {[1..l -> SampleBytes] : l \in 0..maxLen}

\* The big-endian value of a byte string (of the empty string: 0).
RECURSIVE BigEndian(_)
BigEndian(s) ==
    IF Len(s) = 0 THEN 0 ELSE 256 * BigEndian(SubSeq(s, 1, Len(s) - 1)) + s[Len(s)]

CodecInit ==
    /\ op = "init"
    /\ x = 0
    /\ x_len = 0
    /\ x_long = FALSE
    /\ octets = Ok(<<>>)
    /\ value = Ok(0)

\* A call i2osp(v, l).
DoI2OSP ==
    \E v \in CodecInts, l \in 0..MaxLen, long \in BOOLEAN :
        /\ op = "init"
        /\ op' = "i2osp"
        /\ x' = v
        /\ x_len' = l
        /\ x_long' = long
        /\ octets' = i2osp(v, l, long)
        /\ UNCHANGED value

\* A call os2ip(s) on an arbitrary byte string.
DoOS2IP ==
    \E s \in ByteStrings(MaxOctets) :
        /\ op = "init"
        /\ op' = "os2ip"
        /\ octets' = Ok(s)
        /\ value' = os2ip(s)
        /\ UNCHANGED <<x, x_len, x_long>>

\* A call os2ip(i2osp(v, l)) on the string the last i2osp returned.
DoRoundTrip ==
    /\ op = "i2osp"
    /\ octets.exc = "none"
    /\ op' = "roundtrip"
    /\ value' = os2ip(octets.val)
    /\ UNCHANGED <<x, x_len, x_long, octets>>

-----------------------------------------------------------------------------
(* primitives.py: the Euclidean engine and the helpers of key generation.  *)

RECURSIVE gcd(_, _)
\* fractions.gcd
gcd(a, b) == IF b = 0 THEN a ELSE gcd(b, a % b)

RECURSIVE BezoutLoop(_, _, _, _, _, _)
BezoutLoop(a, b, u, v, s, t) ==
    IF b > 0
    THEN LET q == a \div b
             r == a % b
         IN  BezoutLoop(b, r, s, t, u - q * s, v - q * t)
    ELSE <<u, v, a>>

\* bezout(a, b) = <<u, v, p>> with p = gcd(a, b) and a*u + b*v = p.
bezout(a, b) == BezoutLoop(a, b, 1, 0, 0, 1)

RECURSIVE product(_)
\* product(*args), on a non-empty argument list (1 for the running product
\* before the first prime).
product(args) == IF Len(args) = 0 THEN 1 ELSE args[1] * product(Tail(args))

RECURSIVE LambdaOf(_)
\* The group order of a key: the product of (p_i - 1) over its primes.
LambdaOf(ps) == IF Len(ps) = 0 THEN 1 ELSE (ps[1] - 1) * LambdaOf(Tail(ps))

SeqToSet(ps) == {ps[i] : i \in 1..Len(ps)}

-----------------------------------------------------------------------------
(* The external collaborators of key generation.                           *)

\* The exponent the search of generate_key_pair starts from.
DefaultE == 65537

\* Bounds on the arguments of generate_key_pair.
MinSize == 4
MaxSize == 16
MaxNumber == 3

\* No candidate exceeds 2^MaxSize: a composite one has a divisor up to this.
SqrtLimit == Pow(2, MaxSize \div 2 + 1)

IsPrime(p) == p > 1 /\ \A d \in 2..SqrtLimit : d * d > p \/ p % d # 0

\* The primes of exactly b bits, for every bit length the loop can ask for
\* (at most size bits, when number is 1).
PrimeTable == [b \in 1..MaxSize |-> {p \in Pow(2, b - 1)..(Pow(2, b) - 1) : IsPrime(p)}]

\* get_prime(bits, rnd, k, algorithm): the primes it can return; none when
\* there is no prime of that bit length.
get_prime(bits) == IF bits \in DOMAIN PrimeTable THEN PrimeTable[bits] ELSE {}

\* keys.RsaPublicKey(n, e)
RsaPublicKey(modulus, exponent) ==
    [n |-> modulus, e |-> exponent, k |-> integer_byte_size(modulus)]

\* keys.MultiPrimeRsaPrivateKey(primes, e, blind=True, rnd=rnd)
MultiPrimeRsaPrivateKey(ps, exponent, blinding) ==
    [primes |-> ps, e |-> exponent, n |-> product(ps), lbda |-> LambdaOf(ps),
     k |-> integer_byte_size(product(ps)), blind |-> blinding]

NoKey == [n |-> 0, e |-> 0, k |-> 0]
NoPrivateKey == [primes |-> <<>>, e |-> 0, n |-> 0, lbda |-> 0, k |-> 0, blind |-> FALSE]

-----------------------------------------------------------------------------
(* generate_key_pair.                                                      *)

\* The bit length asked of get_prime in this iteration.
NextBits ==
    IF number - Len(primes) = 1
    THEN size - integer_bit_size(n) + 1
    ELSE size \div number + 1

Verdict_no_size_check(prime) ==
    IF prime \in SeqToSet(primes) THEN "duplicate"
    ELSE IF e # None /\ gcd(e, lbda) # 1 THEN "not_coprime"
    ELSE "accepted"

\* What one iteration of the loop does with the candidate.
Verdict(prime) ==
    IF prime \in SeqToSet(primes) THEN "duplicate"
    ELSE IF e # None /\ gcd(e, lbda) # 1 THEN "not_coprime"
    ELSE IF strict_size /\ number - Len(primes) = 1
            /\ integer_bit_size(n * prime) # size THEN "wrong_size"
    ELSE "accepted"

RECURSIVE DeriveE(_, _)
\* The search for e when none was supplied.
DeriveE(c, l) ==
    IF c < l
    THEN IF gcd(c, l) = 1 THEN c ELSE DeriveE(c + 2, l)
    ELSE c

ExponentChoices == {None, 3, 5, DefaultE}

GenInit ==
    /\ size \in MinSize..MaxSize
    /\ number \in 1..MaxNumber
    /\ strict_size \in BOOLEAN
    /\ e \in ExponentChoices
    /\ primes = <<>>
    /\ lbda = 1
    /\ n = 1
    /\ pc = "loop"
    /\ last = "none"
    /\ public = NoKey
    /\ private = NoPrivateKey

\* One iteration of the while loop: a candidate is drawn, then rejected or
\* appended.
Iterate ==
    /\ pc = "loop"
    /\ Len(primes) < number
    /\ \E prime \in get_prime(NextBits) :
        /\ last' = Verdict(prime)
        /\ IF Verdict(prime) = "accepted"
           THEN /\ primes' = Append(primes, prime)
                /\ n' = n * prime
                /\ lbda' = lbda * (prime - 1)
           ELSE UNCHANGED <<primes, n, lbda>>
    /\ UNCHANGED <<size, number, strict_size, e, pc, public, private>>

\* get_prime has no prime of the requested bit length to return: it fails or
\* loops, and generate_key_pair with it.
ProviderFault ==
    /\ pc = "loop"
    /\ Len(primes) < number
    /\ get_prime(NextBits) = {}
    /\ pc' = "provider_fault"
    /\ UNCHANGED <<size, number, strict_size, e, primes, lbda, n, last, public, private>>

\* After the loop: e is derived when none was given, the assertion is
\* checked and the keys are built.
Finish ==
    /\ pc = "loop"
    /\ Len(primes) = number
    /\ LET e1 == IF e = None THEN DeriveE(DefaultE, lbda) ELSE e
       IN  /\ IF 3 <= e1 /\ e1 <= n - 1
              THEN /\ pc' = "returned"
                   /\ public' = RsaPublicKey(n, e1)
                   /\ private' = MultiPrimeRsaPrivateKey(primes, e1, TRUE)
              ELSE /\ pc' = "assert_failed"
                   /\ UNCHANGED <<public, private>>
    /\ UNCHANGED <<size, number, strict_size, e, primes, lbda, n, last>>

-----------------------------------------------------------------------------
(* The RSA primitives of the key objects and the message encoder.          *)

RECURSIVE ModExp(_, _, _)
\* pow(a, b, mod)
ModExp(a, b, mod) ==
    IF b = 0 THEN 1 % mod
    ELSE LET half == ModExp(a, b \div 2, mod)
             sq   == (half * half) % mod
         IN  IF b % 2 = 1 THEN (sq * (a % mod)) % mod ELSE sq

\* _pow(a, b, mod): the same value with and without gmpy.
_pow(a, b, mod) == ModExp(a, b, mod)

\* The inverse of a modulo m, from the Bezout coefficient.
Inverse(a, m) == bezout(a, m)[1] % m

\* Exceptions the except ValueError clauses of verify catch.
IsValueError(exc) == exc \in {"ValueError", "IntegerTooLarge"}

\* public_key.rsavp1(s): s^e mod n, a value error when s is out of range.
rsavp1(pk, s) ==
    IF ~(0 <= s /\ s <= pk.n - 1) THEN RaiseInt("ValueError")
    ELSE Ok(_pow(s, pk.e, pk.n))

\* private_key.rsasp1(m), blinded with the factor r (coprime to n): the
\* private exponent is the inverse of e modulo lambda.
rsasp1(sk, m, r) ==
    IF ~(0 <= m /\ m <= sk.n - 1) THEN RaiseInt("ValueError")
    ELSE LET d == Inverse(sk.e, sk.lbda)
         IN  IF sk.blind
             THEN LET blinded == (m * _pow(r, sk.e, sk.n)) % sk.n
                      sb      == _pow(blinded, d, sk.n)
                  IN  Ok((sb * Inverse(r, sk.n)) % sk.n)
             ELSE Ok(_pow(m, d, sk.n))

\* The length of the digest the encoder embeds, and of what it puts before it.
DigestLen == 1
EncodingOverhead == 1

RECURSIVE SumBytes(_)
SumBytes(msg) == IF Len(msg) = 0 THEN 0 ELSE msg[1] + SumBytes(Tail(msg))

\* The digest of a message: DigestLen bytes, a function of the message.
Digest(msg) == <<(7 * SumBytes(msg) + Len(msg)) % 256>>

\* emsa_pkcs1_v15.encode(message, emLen): 00 || FF .. FF || digest, exactly
\* emLen bytes, the same for the same arguments; a value error when emLen
\* cannot hold the digest and what precedes it.
encode(msg, emLen) ==
    IF emLen < DigestLen + EncodingOverhead THEN Raise("ValueError")
    ELSE Ok(<<0>> \o Repeat(255, emLen - DigestLen - EncodingOverhead) \o Digest(msg))

-----------------------------------------------------------------------------
(* primitives.constant_time_cmp and rsassa_pkcs1_v15.                      *)

Min(a, b) == IF a < b THEN a ELSE b

constant_time_cmp_last(a, b) ==
    Min(Len(a), Len(b)) = 0 \/ a[Min(Len(a), Len(b))] = b[Min(Len(a), Len(b))]

constant_time_cmp(a, b) == \A i \in 1..Min(Len(a), Len(b)) : a[i] = b[i]

sign_short(sk, msg, r, long) ==
    LET em == encode(msg, sk.k)
    IN  IF em.exc # "none" THEN Raise(em.exc)
        ELSE LET m == os2ip(em.val)
             IN  IF m.exc # "none" THEN Raise(m.exc)
                 ELSE LET s == rsasp1(sk, m.val, r)
                      IN  IF s.exc # "none" THEN Raise(s.exc)
                          ELSE i2osp(s.val, integer_byte_size(s.val), long)

\* sign(private_key, message); r is the blinding factor rsasp1 draws, long
\* tells whether the representative it returns is a Python long.
sign(sk, msg, r, long) ==
    LET em == encode(msg, sk.k)
    IN  IF em.exc # "none" THEN Raise(em.exc)
        ELSE LET m == os2ip(em.val)
             IN  IF m.exc # "none" THEN Raise(m.exc)
                 ELSE LET s == rsasp1(sk, m.val, r)
                      IN  IF s.exc # "none" THEN Raise(s.exc)
                          ELSE i2osp(s.val, sk.k, long)

Result(r, c) == [res |-> r, calls |-> c]

PyBool(b) == IF b THEN "True" ELSE "False"

verify_encode_invalid(pk, msg, em, calls) ==
    LET em_prime == encode(msg, pk.k)
    IN  IF IsValueError(em_prime.exc)
        THEN Result("InvalidSignature", calls \o <<"encode">>)
        ELSE Result(PyBool(constant_time_cmp(em, em_prime.val)),
                    calls \o <<"encode", "constant_time_cmp">>)

\* verify, from the re-encoding of the message on.
verify_encode(pk, msg, em, calls) ==
    LET em_prime == encode(msg, pk.k)
    IN  IF IsValueError(em_prime.exc)
        THEN Result("RSAModulusTooShort", calls \o <<"encode">>)
        ELSE Result(PyBool(constant_time_cmp(em, em_prime.val)),
                    calls \o <<"encode", "constant_time_cmp">>)

\* verify, after the check of the signature's length.
verify_primitive(pk, msg, sig, long) ==
    LET s == os2ip(sig)
    IN  IF s.exc # "none" THEN Result(s.exc, <<"os2ip">>)
        ELSE LET m == rsavp1(pk, s.val)
             IN  IF IsValueError(m.exc)
                 THEN Result("InvalidSignature", <<"os2ip", "rsavp1">>)
                 ELSE LET em == i2osp(m.val, pk.k, long)
                      IN  IF IsValueError(em.exc)
                          THEN Result("InvalidSignature", <<"os2ip", "rsavp1", "i2osp">>)
                          ELSE verify_encode(pk, msg, em.val, <<"os2ip", "rsavp1", "i2osp">>)

verify_unchecked_length(pk, msg, sig, long) == verify_primitive(pk, msg, sig, long)

\* verify(public_key, message, signature): the value returned or the
\* exception raised, and the calls made on the way. long tells whether
\* rsavp1 returns a Python long (it does with gmpy).
verify(pk, msg, sig, long) ==
    IF Len(sig) # pk.k THEN Result("InvalidSignature", <<>>)
    ELSE verify_primitive(pk, msg, sig, long)

-----------------------------------------------------------------------------
(* SigSpec: sign, tamper, forge and verify with small valid key pairs.     *)

\* The primes the key pairs are built from: the first NumSigPrimes primes.
NumSigPrimes == 6
MaxSigNumber == 3
\* Blinding factors are drawn from 1..MaxBlind.
MaxBlind == 6
\* Forged signatures are up to MaxForgeExtra bytes longer than k.
MaxForgeExtra == 1

SigPrimes == {p \in 2..60 : IsPrime(p) /\ Cardinality({q \in 2..p : IsPrime(q)}) <= NumSigPrimes}

\* Increasing lists of distinct primes.
SigPrimeLists ==
    {ps \in UNION {[1..l -> SigPrimes] : l \in 2..MaxSigNumber} :
        \A i \in 1..(Len(ps) - 1) : ps[i] < ps[i + 1]}

SigExponents == {3, 5, 7}

\* The valid key pairs: both keys built from the same primes and e, with
\* gcd(e, lambda) = 1 and 3 <= e <= n - 1.
ValidKeyPairs ==
    {<<RsaPublicKey(product(ps), ex), MultiPrimeRsaPrivateKey(ps, ex, blinding)>> :
        <<ps, ex, blinding>> \in
            {t \in SigPrimeLists \X SigExponents \X BOOLEAN :
                /\ gcd(t[2], LambdaOf(t[1])) = 1
                /\ 3 <= t[2] /\ t[2] <= product(t[1]) - 1}}

Messages == {<<>>, <<104, 105>>, <<104, 106>>}

ForgeBytes == {0, 1, 255}

SigInit ==
    /\ \E pair \in ValidKeyPairs : pub = pair[1] /\ priv = pair[2]
    /\ gmpy \in BOOLEAN
    /\ message = <<>>
    /\ signature = <<>>
    /\ origin = "none"
    /\ sig_op = "init"
    /\ outcome = Result("none", <<>>)

\* sign(priv, msg)
Sign ==
    \E msg \in Messages, r \in {c \in 1..MaxBlind : gcd(c, priv.n) = 1}, long \in BOOLEAN :
        LET sg == sign(priv, msg, r, long)
        IN  /\ sig_op = "init"
            /\ message' = msg
            /\ signature' = sg.val
            /\ origin' = IF sg.exc = "none" THEN "sign" ELSE "sign_failed"
            /\ sig_op' = "sign"
            /\ UNCHANGED <<pub, priv, gmpy, outcome>>

\* One byte of a valid signature is replaced by another value.
Tamper ==
    /\ origin = "sign"
    /\ \E i \in 1..Len(signature) :
        \E b \in Byte \ {signature[i]} :
            signature' = [signature EXCEPT ![i] = b]
    /\ origin' = "tamper"
    /\ sig_op' = "tamper"
    /\ outcome' = Result("none", <<>>)
    /\ UNCHANGED <<pub, priv, gmpy, message>>

\* An arbitrary message and an arbitrary string as its signature.
Forge ==
    \E msg \in Messages,
       sig \in UNION {[1..l -> ForgeBytes] : l \in 0..(pub.k + MaxForgeExtra)} :
        /\ sig_op = "init"
        /\ message' = msg
        /\ signature' = sig
        /\ origin' = "forge"
        /\ sig_op' = "forge"
        /\ UNCHANGED <<pub, priv, gmpy, outcome>>

\* verify(pub, message, signature)
Verify ==
    /\ sig_op \in {"sign", "tamper", "forge"}
    /\ origin # "sign_failed"
    /\ outcome' = verify(pub, message, signature, gmpy)
    /\ sig_op' = "verify"
    /\ UNCHANGED <<pub, priv, gmpy, message, signature, origin>>

-----------------------------------------------------------------------------
(* The three specifications. Each leaves the other machines' variables at  *)
(* rest.                                                                   *)

CodecIdle == op = "init" /\ x = 0 /\ x_len = 0 /\ x_long = FALSE
             /\ octets = Ok(<<>>) /\ value = Ok(0)

GenIdle == /\ size = 0 /\ number = 0 /\ strict_size = FALSE /\ e = None
           /\ primes = <<>> /\ lbda = 1 /\ n = 1 /\ pc = "idle" /\ last = "none"
           /\ public = NoKey /\ private = NoPrivateKey

SigIdle == /\ pub = NoKey /\ priv = NoPrivateKey /\ gmpy = FALSE
           /\ message = <<>> /\ signature = <<>> /\ origin = "none"
           /\ sig_op = "init" /\ outcome = Result("none", <<>>)

Init == GenInit /\ CodecIdle /\ SigIdle

Next ==
    \/ Iterate /\ UNCHANGED <<codecVars, sigVars>>
    \/ ProviderFault /\ UNCHANGED <<codecVars, sigVars>>
    \/ Finish /\ UNCHANGED <<codecVars, sigVars>>

Spec == Init /\ [][Next]_vars

InitCodec == CodecInit /\ GenIdle /\ SigIdle

NextCodec ==
    \/ DoI2OSP /\ UNCHANGED <<genVars, sigVars>>
    \/ DoOS2IP /\ UNCHANGED <<genVars, sigVars>>
    \/ DoRoundTrip /\ UNCHANGED <<genVars, sigVars>>

CodecSpec == InitCodec /\ [][NextCodec]_vars

InitSig == SigInit /\ CodecIdle /\ GenIdle

NextSig ==
    \/ Sign /\ UNCHANGED <<codecVars, genVars>>
    \/ Tamper /\ UNCHANGED <<codecVars, genVars>>
    \/ Forge /\ UNCHANGED <<codecVars, genVars>>
    \/ Verify /\ UNCHANGED <<codecVars, genVars>>

SigSpec == InitSig /\ [][NextSig]_vars

-----------------------------------------------------------------------------
(* Properties of the codec, checked under CodecSpec.                       *)

\* C4: i2osp(x, L) raises IntegerTooLarge whenever x >= 256^L, the boundary
\* x = 256^L included; it returns no byte string then.
C4_I2OSPRejectsFrom256PowL ==
    (op = "i2osp" /\ x >= Pow(256, x_len)) => octets.exc = "IntegerTooLarge"

\* C5: for every x >= 0 and every L >= integer_byte_size(x),
\* os2ip(i2osp(x, L)) = x.
C5_RoundTrip ==
    (op = "roundtrip" /\ x_len >= integer_byte_size(x)) => value = Ok(x)

\* A long with an odd number of hex digits, padded on the left, comes back.
C5_Witness ==
    /\ op = "roundtrip" /\ x = 10 /\ x_long /\ x_len = 2
    /\ octets = Ok(<<0, 10>>) /\ value = Ok(10)

\* C6: os2ip returns the big-endian value of every byte string, and 0 for
\* the empty one.
C6_OS2IPIsBigEndianValue ==
    op = "os2ip" => value = Ok(BigEndian(octets.val))

-----------------------------------------------------------------------------
(* Properties of generate_key_pair, checked under Spec.                    *)

Distinct(ps) == \A i, j \in 1..Len(ps) : i # j => ps[i] # ps[j]

\* C1: every returned key pair has gcd(e, lambda) = 1, lambda being the
\* product of (p - 1) over all the primes of the private key.
C1_ExponentCoprimeToLambda ==
    pc = "returned" => gcd(private.e, LambdaOf(private.primes)) = 1

\* C9: a pair returned with strict_size set has n = product(primes), number
\* pairwise distinct primes and a modulus of exactly size bits.
C9_StrictSizeKey ==
    (pc = "returned" /\ strict_size) =>
        /\ public.n = product(private.primes)
        /\ Distinct(private.primes)
        /\ Len(private.primes) = number
        /\ integer_bit_size(public.n) = size

\* A strict three-prime key was returned.
C9_Witness ==
    /\ pc = "returned" /\ strict_size /\ number = 3
    /\ integer_bit_size(public.n) = size
    /\ Len(private.primes) = 3

\* The bit length the loop asks for once ps are collected.
BitsAfter(ps) ==
    IF number - Len(ps) = 1
    THEN size - integer_bit_size(product(ps)) + 1
    ELSE size \div number + 1

RECURSIVE Completable(_)
\* ps can be completed, with primes get_prime can deliver, to number distinct
\* primes that meet the size and coprimality constraints.
Completable(ps) ==
    IF Len(ps) = number
    THEN /\ gcd(e, LambdaOf(ps)) = 1
         /\ strict_size => integer_bit_size(product(ps)) = size
         /\ 3 <= e /\ e <= product(ps) - 1
    ELSE \E p \in get_prime(BitsAfter(ps)) \ SeqToSet(ps) : Completable(Append(ps, p))

\* C10: with e supplied and a suitable set of primes in existence, no state
\* of the loop rejects every candidate get_prime can deliver (such a state
\* is one the loop never leaves).
C10_NoDeadLoopState ==
    (pc = "loop" /\ Len(primes) < number /\ e # None /\ Completable(<<>>)) =>
        \E prime \in get_prime(NextBits) : Verdict(prime) = "accepted"

-----------------------------------------------------------------------------
(* Properties of sign and verify, checked under SigSpec.                   *)

EncoderFails == encode(message, pub.k).exc # "none"

\* C2, as claimed: for every message and every valid key pair sign returns a
\* signature, of k bytes, that verify accepts.
C2_SignVerifyEveryKey ==
    /\ sig_op = "sign" => origin = "sign"
    /\ origin = "sign" => Len(signature) = pub.k
    /\ (origin = "sign" /\ sig_op = "verify") => outcome.res = "True"

\* C2, amended: sign returns a signature unless the encoder fails for k; the
\* signature has k bytes and verify accepts it.
C2_SignVerify ==
    /\ sig_op = "sign" => (origin = "sign" <=> ~EncoderFails)
    /\ origin = "sign" => Len(signature) = pub.k
    /\ (origin = "sign" /\ sig_op = "verify") => outcome.res = "True"

C2_Witness ==
    /\ origin = "sign" /\ sig_op = "verify" /\ outcome.res = "True"
    /\ Len(priv.primes) = 3 /\ priv.blind /\ message # <<>>

\* C3, as claimed: verify returns False for every valid signature with one
\* byte altered.
C3_TamperedReturnsFalse ==
    (origin = "tamper" /\ sig_op = "verify") => outcome.res = "False"

\* C3, amended: verify never accepts a valid signature with one byte altered:
\* it returns False when the altered signature's value is below n and raises
\* InvalidSignature when it is n or more.
C3_TamperedRejected ==
    (origin = "tamper" /\ sig_op = "verify") =>
        outcome.res = (IF BigEndian(signature) < pub.n THEN "False" ELSE "InvalidSignature")

C3_Witness ==
    /\ origin = "tamper" /\ sig_op = "verify"
    /\ BigEndian(signature) < pub.n /\ outcome.res = "False"

\* C7, as claimed: when the encoder fails for k, verify raises
\* RSAModulusTooShort whatever the signature.
C7_ShortKeyAlwaysTooShort ==
    (sig_op = "verify" /\ EncoderFails) => outcome.res = "RSAModulusTooShort"

\* C7, amended: when the encoder fails for k, verify raises RSAModulusTooShort
\* for every signature of k bytes whose value is below n, and
\* InvalidSignature for every other signature.
C7_ShortKeyTooShortOnceChecked ==
    (sig_op = "verify" /\ EncoderFails) =>
        outcome.res = (IF Len(signature) = pub.k /\ BigEndian(signature) < pub.n
                       THEN "RSAModulusTooShort" ELSE "InvalidSignature")

C7_Witness ==
    /\ sig_op = "verify" /\ EncoderFails /\ origin = "forge"
    /\ Len(signature) = pub.k /\ outcome.res = "RSAModulusTooShort"

\* C8: a signature whose length is not k makes verify raise InvalidSignature
\* before os2ip, rsavp1, i2osp or the encoder is called.
C8_LengthCheckedFirst ==
    (sig_op = "verify" /\ Len(signature) # pub.k) =>
        outcome = Result("InvalidSignature", <<>>)

C8_Witness ==
    /\ sig_op = "verify" /\ pub.k = 2 /\ Len(signature) = 1
    /\ outcome = Result("InvalidSignature", <<>>)

=============================================================================
